---- MODULE Spec2Model ----
(***************************************************************************)
(* domlit: template compiler and incremental patch engine.                 *)
(*                                                                         *)
(* The model follows the module that the build bundles (rollup input       *)
(* src/index.ts, which imports ./dom): the functions dom, text, render,    *)
(* patch, instantiate, createTemplate, attributePatch, nodePatch,          *)
(* removeNodes and replaceNodes, and the combinators pullback and concat   *)
(* of src/index.ts.  The host document tree (nodes, their                  *)
(* parent and child links, attributes, listeners) is modelled as a heap of *)
(* node records; every host call the library makes is an operator on that  *)
(* heap that either performs the DOM mutation or raises the exception the  *)
(* DOM standard prescribes.                                                *)
(*                                                                         *)
(* Strings are sequences of one-character strings, so that concatenation,  *)
(* slicing, trimming and prefix tests are computed, not assumed.           *)
(***************************************************************************)
EXTENDS Integers, Sequences, FiniteSets, TLC

VARIABLES
    node,       \* the document heap: node id -> node record
    pt,         \* patch closures: patch id -> captured state
    fr,         \* Fragment objects: fragment id -> record
    tm,         \* Template objects: template id -> record
    templates,  \* WeakMap strings -> template
    fragments,  \* WeakMap parent node -> fragment
    comps,      \* the Component closures created so far
    renders,    \* the number of render calls made
    rendered,   \* parent node -> the component whose call last returned for it
    compiled,   \* strings -> the number of createTemplate calls made for it
    last        \* the last call: what was called, how it ended, the state before

vars == <<node, pt, fr, tm, templates, fragments, comps, renders, rendered, compiled, last>>

-----------------------------------------------------------------------------
(* Bounds of the exploration *)

MaxCalls == 3
MaxRenders == 2
\* the most fragments (closures of dom and text) applied components build
MaxClosures == 6

-----------------------------------------------------------------------------
(* Strings *)

EmptyStr == <<>>

RECURSIVE join(_)
\* Array.prototype.join(""): the concatenation of the pieces
join(pieces) ==
    IF pieces = <<>> THEN EmptyStr ELSE Head(pieces) \o join(Tail(pieces))

RECURSIVE trimStart(_)
trimStart(s) ==
    IF s # <<>> /\ Head(s) = " " THEN trimStart(Tail(s)) ELSE s

RECURSIVE trimEnd(_)
trimEnd(s) ==
    IF s # <<>> /\ s[Len(s)] = " " THEN trimEnd(SubSeq(s, 1, Len(s) - 1)) ELSE s

\* String.prototype.trim
trim(s) == trimEnd(trimStart(s))

\* String.prototype.startsWith
startsWith(s, prefix) ==
    Len(s) >= Len(prefix) /\ SubSeq(s, 1, Len(prefix)) = prefix

\* String.prototype.slice(k)
slice(s, k) == IF k >= Len(s) THEN EmptyStr ELSE SubSeq(s, k + 1, Len(s))

-----------------------------------------------------------------------------
(* Runtime values (type Arg = any).  One record shape for every value:     *)
(*   t  the JavaScript type tag, n a number/identity, s a string,          *)
(*   a  the elements of an array.                                          *)
(* Functions (components, handlers) are equal only to themselves: n is the *)
(* identity of the closure.                                                *)

Null == [t |-> "null", n |-> 0, s |-> EmptyStr, a |-> <<>>]
Undefined == [t |-> "undefined", n |-> 0, s |-> EmptyStr, a |-> <<>>]
StrV(s) == [t |-> "string", n |-> 0, s |-> s, a |-> <<>>]
BoolV(b) == [t |-> "boolean", n |-> IF b THEN 1 ELSE 0, s |-> EmptyStr, a |-> <<>>]
CompV(c) == [t |-> "function", n |-> c, s |-> EmptyStr, a |-> <<>>]
HandlerV(k) == [t |-> "function", n |-> 0 - k, s |-> EmptyStr, a |-> <<>>]
ArrV(xs) == [t |-> "array", n |-> 0, s |-> EmptyStr, a |-> xs]

\* args[off]: reading past the end of an array yields undefined
ArgAt(args, off) == IF off + 1 \in DOMAIN args THEN args[off + 1] ELSE Undefined

RECURSIVE ToStr(_)
RECURSIVE joinComma(_)
\* "" + arg: the string conversion of the language
ToStr(v) ==
    CASE v.t = "string" -> v.s
      [] v.t = "null" -> <<"n", "u", "l", "l">>
      [] v.t = "undefined" -> <<"u", "n", "d", "e", "f", "i", "n", "e", "d">>
      [] v.t = "boolean" -> IF v.n = 1 THEN <<"t", "r", "u", "e">>
                                       ELSE <<"f", "a", "l", "s", "e">>
      [] v.t = "array" -> joinComma(v.a)
      [] OTHER -> <<"f", "n">>
joinComma(xs) ==
    IF xs = <<>> THEN EmptyStr
    ELSE LET h == IF Head(xs).t \in {"null", "undefined"} THEN EmptyStr
                  ELSE ToStr(Head(xs))
         IN IF Len(xs) = 1 THEN h ELSE h \o <<",">> \o joinComma(Tail(xs))

-----------------------------------------------------------------------------
(* The host document tree *)

NoNode == 0        \* null

NewNode(kind, name, value, attrs) ==
    [kind |-> kind, name |-> name, parent |-> NoNode, kids |-> <<>>,
     value |-> value, attrs |-> attrs, lst |-> {}]

NoAttrs == [x \in {} |-> EmptyStr]

\* one host call, as recorded in the log of the running call
HostCall(op, n, x, y) == [op |-> op, n |-> n, x |-> x, y |-> y]

Throw(h, e) == [h EXCEPT !.exc = e]
Log(h, c) == [h EXCEPT !.calls = Append(@, c)]
Ok(h) == h.exc = "none"

RECURSIVE Without(_, _)
Without(seq, x) ==
    IF seq = <<>> THEN <<>>
    ELSE IF Head(seq) = x THEN Tail(seq)
    ELSE <<Head(seq)>> \o Without(Tail(seq), x)

RECURSIVE Splice(_, _, _)
\* seq with the element x replaced by the elements of ys
Splice(seq, x, ys) ==
    IF seq = <<>> THEN <<>>
    ELSE IF Head(seq) = x THEN ys \o Tail(seq)
    ELSE <<Head(seq)>> \o Splice(Tail(seq), x, ys)

\* the node n taken out of its parent's child list (no parent: nothing)
Detach(nodes, n) ==
    LET p == nodes[n].parent IN
    IF p = NoNode THEN nodes
    ELSE [nodes EXCEPT ![p].kids = Without(@, n), ![n].parent = NoNode]

\* the nodes that inserting x inserts: a DocumentFragment inserts its children
Inserted(nodes, x) ==
    IF nodes[x].kind = "fragment" THEN nodes[x].kids ELSE <<x>>

\* the heap after taking the inserted nodes of x out of where they are
Uproot(nodes, x) ==
    IF nodes[x].kind = "fragment" THEN [nodes EXCEPT ![x].kids = <<>>]
    ELSE Detach(nodes, x)

Adopt(nodes, p, ns) ==
    [i \in DOMAIN nodes |->
        IF \E j \in DOMAIN ns : ns[j] = i THEN [nodes[i] EXCEPT !.parent = p]
        ELSE nodes[i]]

\* Node.removeChild: NotFoundError when child is not a child of parent
removeChild(h, parent, child) ==
    IF h.node[child].parent # parent THEN Throw(h, "NotFoundError")
    ELSE Log([h EXCEPT !.node = Detach(@, child)],
             HostCall("removeChild", parent, child, 0))

\* Node.replaceChild(newChild, oldChild)
replaceChild(h, parent, newChild, oldChild) ==
    IF newChild = NoNode THEN Throw(h, "TypeError")
    ELSE IF h.node[oldChild].parent # parent THEN Throw(h, "NotFoundError")
    ELSE LET ns == Inserted(h.node, newChild)
             n1 == Uproot(h.node, newChild)
             n2 == [n1 EXCEPT ![parent].kids = Splice(@, oldChild, ns),
                              ![oldChild].parent = NoNode]
         IN Log([h EXCEPT !.node = Adopt(n2, parent, ns)],
                HostCall("replaceChild", parent, newChild, oldChild))

\* Node.appendChild(newChild)
appendChild(h, parent, newChild) ==
    IF newChild = NoNode THEN Throw(h, "TypeError")
    ELSE LET ns == Inserted(h.node, newChild)
             n1 == Uproot(h.node, newChild)
             n2 == [n1 EXCEPT ![parent].kids = @ \o ns]
         IN Log([h EXCEPT !.node = Adopt(n2, parent, ns)],
                HostCall("appendChild", parent, newChild, 0))

\* Document.createTextNode(s): the new node is h.ret
createTextNode(h, s) ==
    [h EXCEPT !.node = Append(@, NewNode("text", EmptyStr, s, NoAttrs)),
              !.ret = Len(h.node) + 1]

\* node.nodeValue = s
setNodeValue(h, n, s) ==
    Log([h EXCEPT !.node[n].value = s], HostCall("nodeValue", n, 0, 0))

\* Element.setAttribute(name, value)
setAttribute(h, n, name, value) ==
    Log([h EXCEPT !.node[n].attrs =
            [x \in (DOMAIN @) \cup {name} |-> IF x = name THEN value ELSE @[x]]],
        HostCall("setAttribute", n, 0, 0))

\* Element.removeAttribute(name)
removeAttribute(h, n, name) ==
    Log([h EXCEPT !.node[n].attrs = [x \in (DOMAIN @) \ {name} |-> @[x]]],
        HostCall("removeAttribute", n, 0, 0))

\* EventTarget.addEventListener(typ, l): a null or undefined callback adds
\* nothing, and a callback already registered for the type is not added twice
addEventListener(h, n, typ, l) ==
    Log(IF l.t \in {"null", "undefined"} THEN h
        ELSE [h EXCEPT !.node[n].lst = @ \cup {[typ |-> typ, l |-> l]}],
        HostCall("addEventListener", n, 0, 0))

\* EventTarget.removeEventListener(typ, l)
removeEventListener(h, n, typ, l) ==
    Log([h EXCEPT !.node[n].lst = @ \ {[typ |-> typ, l |-> l]}],
        HostCall("removeEventListener", n, 0, 0))

-----------------------------------------------------------------------------
(* Marker codec *)

\* the width of the zero-padded interpolation index inside a marker
MarkerWidth == 8

DigitChars == <<"0", "1", "2", "3", "4", "5", "6", "7", "8", "9">>
IsDigit(c) == \E d \in DOMAIN DigitChars : DigitChars[d] = c

RECURSIVE toString(_)
\* Number.prototype.toString of a non-negative integer
toString(k) ==
    IF k < 10 THEN <<DigitChars[k + 1]>>
    ELSE toString(k \div 10) \o <<DigitChars[(k % 10) + 1]>>

RECURSIVE repeat(_, _)
\* String.prototype.repeat
repeat(s, k) == IF k <= 0 THEN EmptyStr ELSE s \o repeat(s, k - 1)

\* the text of the comment that stands for interpolation k
markerText(k) ==
    <<"_", "_", "#">> \o repeat(<<"0">>, MarkerWidth - Len(toString(k))) \o toString(k)

\* the markup inserted between two static strings
marker(k) == <<"<", "!", "-", "-">> \o markerText(k) \o <<"-", "-", ">">>

MarkerOpen == <<"<", "!", "-", "-", "_", "_", "#">>
MarkerClose == <<"-", "-", ">">>

RECURSIVE digitsFrom(_, _)
\* the number of digits of s starting at position i
digitsFrom(s, i) ==
    IF i <= Len(s) /\ IsDigit(s[i]) THEN 1 + digitsFrom(s, i + 1) ELSE 0

\* the length of the match of /<!--__#\d+-->/ at position i of s, 0 when none
matchAt(s, i) ==
    IF i + Len(MarkerOpen) - 1 <= Len(s)
       /\ SubSeq(s, i, i + Len(MarkerOpen) - 1) = MarkerOpen
    THEN LET d == digitsFrom(s, i + Len(MarkerOpen))
             e == i + Len(MarkerOpen) + d
         IN IF d > 0 /\ e + 2 <= Len(s) /\ SubSeq(s, e, e + 2) = MarkerClose
            THEN Len(MarkerOpen) + d + 3 ELSE 0
    ELSE 0

RECURSIVE splitFrom(_, _, _)
splitFrom(s, start, i) ==
    IF i > Len(s) THEN <<SubSeq(s, start, Len(s))>>
    ELSE IF matchAt(s, i) > 0
         THEN <<SubSeq(s, start, i - 1)>> \o
              splitFrom(s, i + matchAt(s, i), i + matchAt(s, i))
         ELSE splitFrom(s, start, i + 1)

\* v.split(/<!--__#\d+-->/)
split(v) == splitFrom(v, 1, 1)

\* /__#\d+/.test(s)
isMarkerText(s) ==
    \E i \in 1..Len(s) :
        /\ i + 3 <= Len(s)
        /\ SubSeq(s, i, i + 2) = <<"_", "_", "#">>
        /\ IsDigit(s[i + 3])

\* the order of the characters that occur in keys (UTF-16 code unit order)
CharOrder ==
    <<" ", "!", "#", "-", "0", "1", "2", "3", "4", "5", "6", "7", "8", "9",
      "<", ">", "_", "a", "b", "c", "d", "e", "f", "g", "h", "i", "j",
      "k", "l", "m", "n", "o", "p", "q", "r", "s", "t", "u", "v", "w", "x", "y", "z">>
Code(c) == CHOOSE i \in DOMAIN CharOrder : CharOrder[i] = c

RECURSIVE lexLess(_, _)
\* the default comparison of Array.prototype.sort on strings
lexLess(a, b) ==
    IF b = <<>> THEN FALSE
    ELSE IF a = <<>> THEN TRUE
    ELSE IF Head(a) = Head(b) THEN lexLess(Tail(a), Tail(b))
    ELSE Code(Head(a)) < Code(Head(b))

-----------------------------------------------------------------------------
(* Parsed markup: the tree the host parser builds for a template.          *)
(* An element's attrs are in the order the host enumerates them.           *)

Elem(name, attrs, kids) ==
    [kind |-> "element", name |-> name, value |-> EmptyStr, attrs |-> attrs, kids |-> kids]
Comment(s) ==
    [kind |-> "comment", name |-> EmptyStr, value |-> s, attrs |-> <<>>, kids |-> <<>>]
Attr(name, value) == [name |-> name, value |-> value]
Txt(s) ==
    [kind |-> "text", name |-> EmptyStr, value |-> s, attrs |-> <<>>, kids |-> <<>>]

-----------------------------------------------------------------------------
(* Template compiler *)

ElementNode == "element"
TextNode == "text"
CommentNode == "comment"

\* attr.name.startsWith("on")
hasListenerName(name) == startsWith(name, <<"o", "n">>)

RECURSIVE attrmap(_, _)
\* The scan of an element's attributes from the last to the first: the
\* entries of attrmap in insertion order, each under its key, the attribute's
\* value from its first interpolation index on.
attrmap(a, i) ==
    IF i < 1 THEN <<>>
    ELSE LET v == a[i].value
             p == split(v)
         IN (IF Len(p) > 1
             THEN <<[key |-> slice(v, Len(p[1]) + 7),
                     name |-> a[i].name, pieces |-> p]>>
             ELSE <<>>) \o attrmap(a, i - 1)

\* the descriptors in the order the scan has met the attributes
unsortedAttrs(n) ==
    LET m == attrmap(n.attrs, Len(n.attrs))
    IN [i \in DOMAIN m |-> [name |-> m[i].name, pieces |-> m[i].pieces]]

\* keys.sort().map(k => attrmap[k]): the Attribute descriptors of an element
sortedAttrs(n) ==
    LET m == SortSeq(attrmap(n.attrs, Len(n.attrs)),
                     LAMBDA x, y : lexLess(x.key, y.key))
    IN [i \in DOMAIN m |-> [name |-> m[i].name, pieces |-> m[i].pieces]]

RECURSIVE blankAttrs(_, _)
\* what the scan leaves of the element's own attributes: the value of a
\* marker-bearing attribute is blanked, and one named on... is removed
blankAttrs(a, i) ==
    IF i > Len(a) THEN <<>>
    ELSE (IF Len(split(a[i].value)) > 1
          THEN IF hasListenerName(a[i].name) THEN <<>>
               ELSE <<Attr(a[i].name, EmptyStr)>>
          ELSE <<a[i]>>) \o blankAttrs(a, i + 1)

RECURSIVE walkPlaceholders(_, _, _)
\* walk(root, parent, path): the placeholders the walk over root's children
\* from the i-th on appends to parent.children
walkPlaceholders(kids, i, path) ==
    IF i > Len(kids) THEN <<>>
    ELSE LET n == kids[i]
             p == Append(path, i - 1)
             found ==
                 CASE n.kind = ElementNode /\ Len(sortedAttrs(n)) > 0 ->
                        <<[path |-> p, createPatch |-> "attributePatch",
                           attrs |-> sortedAttrs(n),
                           children |-> walkPlaceholders(n.kids, 1, <<>>)]>>
                   [] n.kind = CommentNode /\ isMarkerText(n.value) ->
                        <<[path |-> p, createPatch |-> "nodePatch",
                           attrs |-> <<>>, children |-> <<>>]>>
                        \o walkPlaceholders(n.kids, 1, p)
                   [] OTHER -> walkPlaceholders(n.kids, 1, p)
         IN found \o walkPlaceholders(kids, i + 1, path)

RECURSIVE compiledContent(_)
\* the template element's content after the walk
compiledContent(kids) ==
    [i \in DOMAIN kids |->
        [kids[i] EXCEPT !.attrs = blankAttrs(kids[i].attrs, 1),
                        !.kids = compiledContent(kids[i].kids)]]

\* createTemplate(strings), given the tree the host parsed from the strings
\* joined by markers
createTemplate(parsed) ==
    [elem |-> compiledContent(parsed),
     ph |-> [path |-> <<>>, createPatch |-> "null", attrs |-> <<>>,
             children |-> walkPlaceholders(parsed, 1, <<>>)]]

\* const textTemplate: the Template every text fragment carries
textTemplate == 0
\* a fragment without a template (tmpl undefined, tmpl: null)
NoTemplateUndefined == 0 - 1
NoTemplateNull == 0 - 2

-----------------------------------------------------------------------------
(* Fragments, node lists and the running call                              *)
(*                                                                         *)
(* A running call threads a record h through the operators below:          *)
(*   h.node, h.pt, h.fr   the heaps,                                       *)
(*   h.exc                "none", or the exception that ended the call,    *)
(*   h.ret                the value the last operator returned,            *)
(*   h.calls              the host mutations made so far,                  *)
(*   h.reads              the argument indexes read so far, per patch,     *)
(*   h.apps               the applications of a fragment's patches so far, *)
(*   h.invs               the component invocations made so far.           *)

\* a NodeList: an array of nodes, or the live childNodes of a node
ArrayOf(ns) == [live |-> NoNode, items |-> ns]
ChildNodes(p) == [live |-> p, items |-> <<>>]
Items(h, nl) == IF nl.live # NoNode THEN h.node[nl.live].kids ELSE nl.items

Fragment(tmpl, patches, nodes) == [tmpl |-> tmpl, patches |-> patches, nodes |-> nodes]

NewFragment(h, f) == [h EXCEPT !.fr = Append(@, f), !.ret = Len(h.fr) + 1]

\* removeNodes(nodes, start), from index i (exclusive) down
RECURSIVE removeNodesFrom(_, _, _, _)
removeNodesFrom(h, nodes, i, start) ==
    IF ~Ok(h) \/ i <= start THEN h
    ELSE LET n == Items(h, nodes)[i]
             p == h.node[n].parent
         IN IF p = NoNode THEN Throw(h, "TypeError")
            ELSE removeNodesFrom(removeChild(h, p, n), nodes, i - 1, start)

removeNodes(h, nodes, start) ==
    removeNodesFrom(h, nodes, Len(Items(h, nodes)), start)

\* parent.replaceChild(newChild, oldChildren[0]), reached when removeNodes
\* has returned
replaceFirst(h, parent, newChild, oldChildren) ==
    IF Ok(h) THEN replaceChild(h, parent, newChild, Items(h, oldChildren)[1]) ELSE h

replaceNodes(h, parent, newChild, oldChildren) ==
    IF Len(Items(h, oldChildren)) # 0
    THEN replaceFirst(removeNodes(h, oldChildren, 1), parent, newChild, oldChildren)
    ELSE appendChild(h, parent, newChild)

-----------------------------------------------------------------------------
(* Instantiator *)

\* the attributes of a cloned element: name -> value
AttrValues(a) ==
    [x \in {a[j].name : j \in DOMAIN a} |->
        a[CHOOSE j \in DOMAIN a : a[j].name = x].value]

RECURSIVE cloneInto(_, _, _, _)
\* the deep copies of kids[i..], appended to the children of parent
cloneInto(nodes, kids, i, parent) ==
    IF i > Len(kids) THEN nodes
    ELSE LET id == Len(nodes) + 1
             k == kids[i]
             n1 == Append(nodes, [NewNode(k.kind, k.name, k.value, AttrValues(k.attrs))
                                    EXCEPT !.parent = parent])
             n2 == [n1 EXCEPT ![parent].kids = Append(@, id)]
         IN cloneInto(cloneInto(n2, k.kids, 1, id), kids, i + 1, parent)

\* doc.importNode(tmpl.elem.content, true): h.ret is the new DocumentFragment
importNode(h, content) ==
    LET d == Len(h.node) + 1
        n1 == Append(h.node, NewNode("fragment", EmptyStr, EmptyStr, NoAttrs))
    IN [h EXCEPT !.node = cloneInto(n1, content, 1, d), !.ret = d]

RECURSIVE resolve(_, _, _)
\* ph.path.reduce((child, i) => child.childNodes[i], p)
resolve(nodes, p, path) ==
    IF path = <<>> THEN p
    ELSE resolve(nodes, nodes[p].kids[Head(path) + 1], Tail(path))

Part(arg, frag) == [hole |-> FALSE, arg |-> arg, frag |-> frag]
Hole == [hole |-> TRUE, arg |-> Undefined, frag |-> 0]

NoHandlers == [x \in {} |-> Undefined]

\* attributePatch(attrs, n, tmpl): the state the returned closure captures
attributePatchNew(h, attrs, n, tmpl) ==
    [h EXCEPT !.pt = Append(@, [createdBy |-> "attributePatch", attrs |-> attrs,
                                n |-> n, handlers |-> NoHandlers,
                                parent |-> NoNode, parts |-> <<>>])]

\* nodePatch(n, tmpl): the state the returned closure captures
nodePatchNew(h, n, tmpl) ==
    LET h1 == NewFragment(h, Fragment(tmpl, <<>>, ArrayOf(<<n>>)))
    IN [h1 EXCEPT !.pt = Append(@, [createdBy |-> "nodePatch", attrs |-> <<>>,
                                    n |-> n, handlers |-> NoHandlers,
                                    parent |-> h.node[n].parent,
                                    parts |-> <<Part(Null, h1.ret)>>])]

RECURSIVE walkInstantiate(_, _, _, _, _)
\* tmpl.ph.children.forEach(ph => walk(ph, p)), from the i-th placeholder on
walkInstantiate(h, phs, i, p, tmpl) ==
    IF i > Len(phs) THEN h
    ELSE LET ph == phs[i]
             n == resolve(h.node, p, ph.path)
             h1 == IF ph.createPatch = "attributePatch"
                   THEN attributePatchNew(h, ph.attrs, n, tmpl)
                   ELSE nodePatchNew(h, n, tmpl)
             h2 == walkInstantiate(h1, ph.children, 1, n, tmpl)
         IN walkInstantiate(h2, phs, i + 1, p, tmpl)

\* instantiate(doc, tmpl): h.ret is the new Fragment
instantiate(h, tmpl) ==
    LET h1 == importNode(h, tm[tmpl].elem)
        d == h1.ret
        h2 == walkInstantiate(h1, tm[tmpl].ph.children, 1, d, tmpl)
        patches == [j \in 1..(Len(h2.pt) - Len(h.pt)) |-> Len(h.pt) + j]
    IN NewFragment(h2, Fragment(tmpl, patches, ArrayOf(h2.node[d].kids)))

-----------------------------------------------------------------------------
(* Patch engine and fragment reconciler *)

NoOffset == 0 - 1

\* args[off] is read by patch p, for the attribute named site (none: a node site)
Read(h, p, off, site) ==
    [h EXCEPT !.reads = Append(@, [patch |-> p, index |-> off, site |-> site])]

\* a comparison that finds every value changed
neverEquals(a, b) == FALSE

\* arg !== part.arg, h !== handlers[typ]
strictEquals(a, b) == a = b

HandlerOf(handlers, typ) ==
    IF typ \in DOMAIN handlers THEN handlers[typ] ELSE Undefined

\* attr.pieces.length < 3 && !attr.pieces.join("").trim().length
varOnly(attr) == Len(attr.pieces) < 3 /\ Len(trim(join(attr.pieces))) = 0

RECURSIVE reducePieces(_, _, _, _, _)
\* attr.pieces.reduce((res, piece) => res + args[off++] + piece), from piece j
reducePieces(pieces, j, args, off, res) ==
    IF j > Len(pieces) THEN res
    ELSE reducePieces(pieces, j + 1, args, off + 1,
                      res \o ToStr(ArgAt(args, off)) \o pieces[j])

RECURSIVE readRun(_, _, _, _, _)
readRun(h, p, off, k, site) ==
    IF k = 0 THEN h ELSE readRun(Read(h, p, off, site), p, off + 1, k - 1, site)

\* attributeEach with a listener branch that never detaches the old listener
attributeEachKeepListener(h, p, attr, args, off) ==
    LET n == h.pt[p].n
        a == ArgAt(args, off)
    IN IF varOnly(attr) /\ hasListenerName(attr.name)
       THEN LET typ == slice(attr.name, 2)
                old == HandlerOf(h.pt[p].handlers, typ)
                h0 == Read(h, p, off, attr.name)
                h2 == addEventListener(h0, n, typ, a)
                h3 == [h2 EXCEPT !.pt[p].handlers =
                          [x \in (DOMAIN @) \cup {typ} |-> IF x = typ THEN a ELSE @[x]]]
            IN [(IF ~strictEquals(a, old) THEN h3 ELSE h0) EXCEPT !.ret = off + 1]
       ELSE IF varOnly(attr) /\ a.t = "boolean"
       THEN [(IF a.n = 1 THEN setAttribute(Read(h, p, off, attr.name), n, attr.name, EmptyStr)
                         ELSE removeAttribute(Read(h, p, off, attr.name), n, attr.name))
                EXCEPT !.ret = off + 1]
       ELSE [setAttribute(readRun(h, p, off, Len(attr.pieces) - 1, attr.name), n, attr.name,
                          reducePieces(attr.pieces, 2, args, off, attr.pieces[1]))
                EXCEPT !.ret = off + Len(attr.pieces) - 1]

\* attributeEach without the boolean branch: every attribute that is not a
\* listener is set to the concatenated string
attributeEachStringOnly(h, p, attr, args, off) ==
    LET n == h.pt[p].n
        a == ArgAt(args, off)
    IN IF varOnly(attr) /\ hasListenerName(attr.name)
       THEN LET typ == slice(attr.name, 2)
                old == HandlerOf(h.pt[p].handlers, typ)
                h0 == Read(h, p, off, attr.name)
                h1 == removeEventListener(h0, n, typ, old)
                h2 == addEventListener(h1, n, typ, a)
                h3 == [h2 EXCEPT !.pt[p].handlers =
                          [x \in (DOMAIN @) \cup {typ} |-> IF x = typ THEN a ELSE @[x]]]
            IN [(IF ~strictEquals(a, old) THEN h3 ELSE h0) EXCEPT !.ret = off + 1]
       ELSE [setAttribute(readRun(h, p, off, Len(attr.pieces) - 1, attr.name), n, attr.name,
                          reducePieces(attr.pieces, 2, args, off, attr.pieces[1]))
                EXCEPT !.ret = off + Len(attr.pieces) - 1]

\* the body of attrs.forEach in the closure of attributePatch, for one attr
attributeEach(h, p, attr, args, off) ==
    LET n == h.pt[p].n
        a == ArgAt(args, off)
    IN IF varOnly(attr) /\ hasListenerName(attr.name)
       THEN LET typ == slice(attr.name, 2)
                old == HandlerOf(h.pt[p].handlers, typ)
                h0 == Read(h, p, off, attr.name)
                h1 == removeEventListener(h0, n, typ, old)
                h2 == addEventListener(h1, n, typ, a)
                h3 == [h2 EXCEPT !.pt[p].handlers =
                          [x \in (DOMAIN @) \cup {typ} |-> IF x = typ THEN a ELSE @[x]]]
            IN [(IF ~strictEquals(a, old) THEN h3 ELSE h0) EXCEPT !.ret = off + 1]
       ELSE IF varOnly(attr) /\ a.t = "boolean"
       THEN [(IF a.n = 1 THEN setAttribute(Read(h, p, off, attr.name), n, attr.name, EmptyStr)
                         ELSE removeAttribute(Read(h, p, off, attr.name), n, attr.name))
                EXCEPT !.ret = off + 1]
       ELSE [setAttribute(readRun(h, p, off, Len(attr.pieces) - 1, attr.name), n, attr.name,
                          reducePieces(attr.pieces, 2, args, off, attr.pieces[1]))
                EXCEPT !.ret = off + Len(attr.pieces) - 1]

RECURSIVE attributeFrom(_, _, _, _)
\* attrs.forEach from the i-th descriptor on; h.ret is off
attributeFrom(h, p, i, args) ==
    IF i > Len(h.pt[p].attrs) THEN h
    ELSE attributeFrom(attributeEach(h, p, h.pt[p].attrs[i], args, h.ret), p, i + 1, args)

\* the closure attributePatch returns: (args, off) => new offset, in h.ret
attributePatch(h, p, args, off) == attributeFrom([h EXCEPT !.ret = off], p, 1, args)

\* return v, unless the call has ended with an exception
Returning(h, v) == IF Ok(h) THEN [h EXCEPT !.ret = v] ELSE h

\* frag = {tmpl: textTemplate, patches: [], nodes: [n]}
textFragment(h, n) ==
    IF Ok(h) THEN NewFragment(h, Fragment(textTemplate, <<>>, ArrayOf(<<n>>))) ELSE h

\* replaceNodes(parent, n, frag.nodes) for the text node n = h.ret just created
textPlace(h, parent, oldNodes) ==
    textFragment(replaceNodes(h, parent, h.ret, oldNodes), h.ret)

\* text(s) that never reuses the text node of the previous fragment
textAlwaysNew(h, s, parent, frag) ==
    textPlace(createTextNode(h, s), parent, h.fr[frag].nodes)

\* text(s)(parent, frag): h.ret is the returned fragment
text(h, s, parent, frag) ==
    IF h.fr[frag].tmpl # textTemplate
    THEN textPlace(createTextNode(h, s), parent, h.fr[frag].nodes)
    ELSE LET n == Items(h, h.fr[frag].nodes)[1]
         IN IF h.node[n].value # s THEN [setNodeValue(h, n, s) EXCEPT !.ret = frag]
            ELSE [h EXCEPT !.ret = frag]

\* parts[idx] = part, idx counted from 1: an index past the end leaves holes
setPart(parts, idx, part) ==
    [i \in 1..(IF idx > Len(parts) THEN idx ELSE Len(parts)) |->
        IF i = idx THEN part ELSE IF i <= Len(parts) THEN parts[i] ELSE Hole]

\* parts.length = k
setLength(parts, k) ==
    [i \in 1..k |-> IF i <= Len(parts) THEN parts[i] ELSE Hole]

\* part.frag = the fragment the component returned; parts[idx] = part
storePart(h, p, idx, arg) ==
    IF Ok(h) THEN [h EXCEPT !.pt[p].parts = setPart(@, idx, Part(arg, h.ret))] ELSE h

NoComponent == 0

\* the component c (NoComponent: the one text(s) makes on the spot) is
\* called with (parent, frag)
Invoked(h, c, s, parent, frag) ==
    [h EXCEPT !.invs = Append(@, [c |-> c, s |-> s, parent |-> parent, frag |-> frag])]

RECURSIVE call(_, _, _, _)
RECURSIVE dom(_, _, _, _, _)
RECURSIVE patchFrom(_, _, _, _)
RECURSIVE nodeEach(_, _, _, _)
RECURSIVE nodePatch(_, _, _, _)

\* the loop that removes the nodes of the parts from index i (from 1) on
RECURSIVE removeOld(_, _, _)
removeOld(h, p, i) ==
    IF ~Ok(h) \/ i > Len(h.pt[p].parts) THEN h
    ELSE IF h.pt[p].parts[i].hole THEN Throw(h, "TypeError")
    ELSE removeOld(removeNodes(h, h.fr[h.pt[p].parts[i].frag].nodes, 0), p, i + 1)

\* c(parent, frag) for the value arg of a node site: a function is the
\* component, anything else is rendered by text("" + arg)
call(h, arg, parent, frag) ==
    IF arg.t = "function"
    THEN IF comps[arg.n].kind = "dom"
         THEN dom(Invoked(h, arg.n, comps[arg.n].s, parent, frag),
                  comps[arg.n].tmpl, comps[arg.n].args, parent, frag)
         ELSE text(Invoked(h, arg.n, comps[arg.n].s, parent, frag),
                   comps[arg.n].s, parent, frag)
    ELSE text(Invoked(h, NoComponent, ToStr(arg), parent, frag),
              ToStr(arg), parent, frag)

\* newArgs.forEach in the closure of nodePatch, from index idx (from 1) on
nodeEach(h, p, newArgs, idx) ==
    IF ~Ok(h) \/ idx > Len(newArgs) THEN h
    ELSE LET parts == h.pt[p].parts
             kept == idx <= Len(parts) /\ ~parts[idx].hole
             h0 == IF kept THEN h
                   ELSE NewFragment(h, Fragment(NoTemplateNull, <<>>, ArrayOf(<<>>)))
             part == IF kept THEN parts[idx] ELSE Part(Null, h0.ret)
             arg == newArgs[idx]
         IN IF strictEquals(arg, part.arg) THEN nodeEach(h0, p, newArgs, idx + 1)
            ELSE nodeEach(
                     storePart(call(IF kept THEN [h0 EXCEPT !.pt[p].parts[idx].arg = arg]
                                    ELSE h0,
                                    arg, h.pt[p].parent, part.frag),
                               p, idx, arg),
                     p, newArgs, idx + 1)

\* parts.length = newArgs.length; return off + 1: reached when the loops
\* have returned
nodePatchEnd(h, p, k, off) ==
    IF Ok(h) THEN [h EXCEPT !.pt[p].parts = setLength(@, k), !.ret = off + 1] ELSE h

\* the closure nodePatch returns: (args, off) => off + 1, in h.ret
nodePatch(h, p, args, off) ==
    LET a == ArgAt(args, off)
        newArgs == IF a.t = "array" THEN a.a ELSE <<a>>
    IN nodePatchEnd(removeOld(nodeEach(Read(h, p, off, EmptyStr), p, newArgs, 1),
                              p, Len(newArgs) + 1),
                    p, Len(newArgs), off)

\* frag.patches.reduce((off, p) => p(args, off), 0), from the i-th patch on;
\* h.ret is off
patchFrom(h, patches, i, args) ==
    IF ~Ok(h) \/ i > Len(patches) THEN h
    ELSE patchFrom(IF h.pt[patches[i]].createdBy = "attributePatch"
                   THEN attributePatch(h, patches[i], args, h.ret)
                   ELSE nodePatch(h, patches[i], args, h.ret),
                   patches, i + 1, args)

\* the application of frag's patches that ended in h is recorded with the
\* offset the reduction returned (NoOffset when it did not return) and the
\* number of host calls made when it ended
Applied(h, frag, args) ==
    [h EXCEPT !.apps = Append(@, [frag |-> frag, args |-> args,
                                  off |-> IF Ok(h) THEN h.ret ELSE NoOffset,
                                  at |-> Len(h.calls)])]

\* patch(frag, args)
patch(h, frag, args) ==
    Applied(patchFrom([h EXCEPT !.ret = 0], h.fr[frag].patches, 1, args), frag, args)

\* patch(frag, args) for the fragment h.ret that instantiate returned
domPatch(h, args) == Returning(patch(h, h.ret, args), h.ret)

\* the replacement of oldNodes by the nodes of the new fragment h.ret
domReplace(h, parent, oldNodes) ==
    IF ~Ok(h) THEN h
    ELSE IF Len(Items(h, h.fr[h.ret].nodes)) # 0
    THEN Returning(replaceNodes(h, parent,
                                h.node[Items(h, h.fr[h.ret].nodes)[1]].parent, oldNodes),
                   h.ret)
    ELSE Returning(removeNodes(h, oldNodes, 0), h.ret)

\* patch(frag, args) after the new nodes have replaced the old ones
patchAttached(h, args) == IF Ok(h) THEN domPatch(h, args) ELSE h

\* a dom component that attaches the new nodes first and patches them then
domAttachFirst(h, tmpl, args, parent, frag) ==
    IF h.fr[frag].tmpl = tmpl
    THEN Returning(patch(h, frag, args), frag)
    ELSE patchAttached(domReplace(instantiate(h, tmpl), parent, h.fr[frag].nodes), args)

\* the component dom returns, called with (parent, frag): h.ret is the
\* returned fragment
dom(h, tmpl, args, parent, frag) ==
    IF h.fr[frag].tmpl = tmpl
    THEN Returning(patch(h, frag, args), frag)
    ELSE domReplace(domPatch(instantiate(h, tmpl), args), parent, h.fr[frag].nodes)

-----------------------------------------------------------------------------
(* The templates of the exploration.  A key is the identity of a strings   *)
(* array (a tagged-template call site); createTemplateElement gives the    *)
(* tree the host parser builds from its strings joined by the markers.     *)

A == <<"a">>
B == <<"b">>

\* dom`<p></p>`, at two call sites
KeyP == "p"
KeyP2 == "p2"
\* dom``
KeyEmpty == "empty"
\* dom`<ul><li></li>${items}<li></li></ul>`
KeyUl == "ul"
\* dom`<h1>${name}</h1>${body}`
KeyTop == "top"
\* dom`<li>${item}</li>`
KeyLi == "li"
\* dom`<a id="x${0}y${1}" hidden="${2}" onclick="${3}">${4}</a>`
KeyAttr == "attr"

\* dom`<b></b>${lead}<p>${body}</p>`
KeyLead == "lead"
\* dom`${value}`
KeyOnly == "only"
\* dom` ${comps.map(c => c(x))} `, the call site inside concat
KeyConcat == "concat"

\* Call sites of one element <a x=".." y=".." z=".."> whose attributes hold
\* counts[j] interpolations each (0: a static attribute), in source order
\* x, y, z, and which the host enumerates in the order given.  With nested,
\* the element has a child element with an attribute site and a node site,
\* a node site of its own after it, and a node site follows the element.
Shape(counts, order, nested) == [counts |-> counts, order |-> order, nested |-> nested]

Shapes ==
    <<Shape(<<1, 1, 1>>, <<1, 2, 3>>, FALSE), Shape(<<1, 1, 1>>, <<1, 3, 2>>, FALSE),
      Shape(<<1, 1, 1>>, <<2, 1, 3>>, FALSE), Shape(<<1, 1, 1>>, <<2, 3, 1>>, FALSE),
      Shape(<<1, 1, 1>>, <<3, 1, 2>>, FALSE), Shape(<<1, 1, 1>>, <<3, 2, 1>>, FALSE),
      Shape(<<2, 1, 0>>, <<2, 1, 3>>, FALSE), Shape(<<1, 2, 1>>, <<3, 2, 1>>, FALSE),
      Shape(<<2, 8, 1>>, <<3, 2, 1>>, FALSE),
      Shape(<<1, 1, 0>>, <<1, 2, 3>>, TRUE), Shape(<<1, 1, 0>>, <<2, 1, 3>>, TRUE)>>

ShapeKeys ==
    <<"s1", "s2", "s3", "s4", "s5", "s6", "s7", "s8", "s9", "s10", "s11">>

ShapeKeySet == {ShapeKeys[i] : i \in DOMAIN ShapeKeys}

ShapeOf(k) == Shapes[CHOOSE i \in DOMAIN ShapeKeys : ShapeKeys[i] = k]

Keys ==
    {KeyP, KeyP2, KeyEmpty, KeyUl, KeyTop, KeyLi, KeyAttr, KeyLead, KeyOnly,
     KeyConcat}
    \cup ShapeKeySet

AttrNames == <<<<"x">>, <<"y">>, <<"z">>>>

RECURSIVE markersFrom(_, _)
\* the markers of the interpolations first, first + 1, ... (k of them) as
\* they stand in an attribute value, separated by a blank
markersFrom(first, k) ==
    IF k = 0 THEN EmptyStr
    ELSE marker(first) \o (IF k = 1 THEN EmptyStr
                           ELSE <<" ">> \o markersFrom(first + 1, k - 1))

\* the index of the first interpolation of the j-th attribute in the source
firstIndex(counts, j) ==
    IF j = 1 THEN 0 ELSE IF j = 2 THEN counts[1] ELSE counts[1] + counts[2]

\* the j-th attribute as the host parsed it: its name, and its name as a
\* static prefix followed by its markers
shapeAttr(counts, j) ==
    Attr(AttrNames[j],
         IF counts[j] = 0 THEN <<"s">>
         ELSE AttrNames[j] \o markersFrom(firstIndex(counts, j), counts[j]))

\* the number of interpolations in the attributes of the element
shapeTotal(counts) == counts[1] + counts[2] + counts[3]

shapeElement(sh) ==
    LET attrs == [i \in 1..3 |-> shapeAttr(sh.counts, sh.order[i])]
        k == shapeTotal(sh.counts)
    IN IF sh.nested
       THEN <<Elem(<<"a">>, attrs,
                   <<Elem(<<"b">>, <<Attr(<<"w">>, marker(k))>>,
                          <<Comment(markerText(k + 1))>>),
                     Comment(markerText(k + 2))>>),
              Comment(markerText(k + 3))>>
       ELSE <<Elem(<<"a">>, attrs, <<>>)>>

IdName == <<"i", "d">>
HiddenName == <<"h", "i", "d", "d", "e", "n">>
OnclickName == <<"o", "n", "c", "l", "i", "c", "k">>

createTemplateElement(k) ==
    CASE k \in ShapeKeySet -> shapeElement(ShapeOf(k))
      [] k \in {KeyP, KeyP2} -> <<Elem(<<"p">>, <<>>, <<>>)>>
      [] k = KeyEmpty -> <<>>
      [] k = KeyUl ->
            <<Elem(<<"u", "l">>, <<>>,
                   <<Elem(<<"l", "i">>, <<>>, <<>>),
                     Comment(markerText(0)),
                     Elem(<<"l", "i">>, <<>>, <<>>)>>)>>
      [] k = KeyTop ->
            <<Elem(<<"h", "1">>, <<>>, <<Comment(markerText(0))>>),
              Comment(markerText(1))>>
      [] k = KeyLi -> <<Elem(<<"l", "i">>, <<>>, <<Comment(markerText(0))>>)>>
      [] k = KeyLead ->
            <<Elem(<<"b">>, <<>>, <<>>),
              Comment(markerText(0)),
              Elem(<<"p">>, <<>>, <<Comment(markerText(1))>>)>>
      [] k = KeyOnly -> <<Comment(markerText(0))>>
      [] k = KeyConcat -> <<Txt(<<" ">>), Comment(markerText(0)), Txt(<<" ">>)>>
      [] k = KeyAttr ->
            <<Elem(<<"a">>,
                   <<Attr(IdName, <<"x">> \o marker(0) \o <<"y">> \o marker(1)),
                     Attr(HiddenName, marker(2)),
                     Attr(OnclickName, marker(3))>>,
                   <<Comment(markerText(4))>>)>>

-----------------------------------------------------------------------------
(* State *)

\* the nodes render is given as parents: 1 has two children, 2 has none
Parents == {1, 2}

NoFragment == 0
NoTemplate == 0 - 1

\* Components of a context (x => Fragment), as the page composes them: a
\* term names the function, f the context mapping of a pullback and cs the
\* components it was built from
Term(op, f, cs) == [op |-> op, f |-> f, cs |-> cs]
NoTerm == Term("none", "", <<>>)
\* x => text(x)
TextOf == Term("text", "", <<>>)
\* x => dom`<li>${x}</li>`
ItemOf == Term("li", "", <<>>)
\* pullback(f, c)
pullback(f, c) == Term("pullback", f, <<c>>)
\* concat(...comps)
concat(cs) == Term("concat", "", cs)

\* the context mappings given to pullback: swap exchanges the two contexts
applyF(f, w) == IF f = "swap" THEN (IF w = StrV(A) THEN StrV(B) ELSE StrV(A)) ELSE w

Call(op, c, parent, h, pre) ==
    [op |-> op, c |-> c, parent |-> parent, exc |-> h.exc, ret |-> h.ret,
     calls |-> h.calls, reads |-> h.reads, apps |-> h.apps, invs |-> h.invs,
     cx |-> NoTerm, x |-> Null, pre |-> pre]

Heap == [node |-> node, pt |-> pt, fr |-> fr, exc |-> "none", ret |-> 0,
         calls |-> <<>>, reads |-> <<>>, apps |-> <<>>, invs |-> <<>>]

Pre == [node |-> node, fragments |-> fragments, fr |-> fr, pt |-> pt,
        templates |-> templates, rendered |-> rendered]

Init ==
    /\ node = <<[NewNode("element", <<"d", "i", "v">>, EmptyStr, NoAttrs)
                    EXCEPT !.kids = <<3, 4>>],
                NewNode("element", <<"d", "i", "v">>, EmptyStr, NoAttrs),
                [NewNode("element", <<"i">>, EmptyStr, NoAttrs) EXCEPT !.parent = 1],
                [NewNode("text", EmptyStr, <<"o", "l", "d">>, NoAttrs) EXCEPT !.parent = 1]>>
    /\ pt = <<>>
    /\ fr = <<>>
    /\ tm = <<>>
    /\ templates = [k \in Keys |-> NoTemplate]
    /\ fragments = [p \in Parents |-> NoFragment]
    /\ comps = <<>>
    /\ renders = 0
    /\ rendered = [p \in Parents |-> NoComponent]
    /\ compiled = [k \in Keys |-> 0]
    /\ last = [op |-> "init", c |-> 0, parent |-> 0, exc |-> "none", ret |-> 0,
               calls |-> <<>>, reads |-> <<>>, apps |-> <<>>, invs |-> <<>>,
               cx |-> NoTerm, x |-> Null, pre |-> Pre]

\* a cache that never holds a template
templatesGetMiss(strings) == NoTemplate

\* templates.get(strings)
templatesGet(strings) == templates[strings]

\* dom(strings, ...args): the template of strings is compiled unless cached,
\* and a component closed over the template and the arguments is returned
Dom(strings, args) ==
    /\ Len(comps) < MaxCalls
    /\ LET cached == templatesGet(strings) # NoTemplate
           tmpl == IF cached THEN templatesGet(strings) ELSE Len(tm) + 1
       IN /\ tm' = IF cached THEN tm
                   ELSE Append(tm, createTemplate(createTemplateElement(strings)))
          /\ templates' = [templates EXCEPT ![strings] = tmpl]
          /\ compiled' = IF cached THEN compiled
                         ELSE [compiled EXCEPT ![strings] = @ + 1]
          /\ comps' = Append(comps, [kind |-> "dom", tmpl |-> tmpl, key |-> strings,
                                     args |-> args, s |-> EmptyStr])
    /\ last' = Call("dom", Len(comps) + 1, 0, Heap, Pre)
    /\ UNCHANGED <<node, pt, fr, fragments, renders, rendered>>

\* The calls of dom and text that an applied component makes run on a
\* record st of the template cache and the closures built so far; st.ret is
\* the closure the last call returned.
Closures ==
    [tm |-> tm, templates |-> templates, compiled |-> compiled, comps |-> comps,
     ret |-> NoComponent]

\* dom(strings, ...args) within an applied component
domEval(st, strings, args) ==
    IF st.templates[strings] # NoTemplate
    THEN [st EXCEPT !.comps = Append(@, [kind |-> "dom", tmpl |-> st.templates[strings],
                                         key |-> strings, args |-> args, s |-> EmptyStr]),
                    !.ret = Len(st.comps) + 1]
    ELSE [st EXCEPT !.tm = Append(@, createTemplate(createTemplateElement(strings))),
                    !.templates[strings] = Len(st.tm) + 1,
                    !.compiled[strings] = @ + 1,
                    !.comps = Append(@, [kind |-> "dom", tmpl |-> Len(st.tm) + 1,
                                         key |-> strings, args |-> args, s |-> EmptyStr]),
                    !.ret = Len(st.comps) + 1]

\* text(s) within an applied component
textEval(st, s) ==
    [st EXCEPT !.comps = Append(@, [kind |-> "text", tmpl |-> textTemplate, key |-> "",
                                    args |-> <<>>, s |-> s]),
               !.ret = Len(st.comps) + 1]

RECURSIVE evalComp(_, _, _)
RECURSIVE evalAll(_, _, _, _, _)

\* comps.map(c => c(x)) continued after the i-th component has returned
evalNext(st, cs, i, x, acc) == evalAll(st, cs, i + 1, x, Append(acc, CompV(st.ret)))

\* dom` ${comps.map(c => c(x))} `: the components from the i-th on are
\* applied to x, then the template is applied to the array of the results
evalAll(st, cs, i, x, acc) ==
    IF i > Len(cs) THEN domEval(st, KeyConcat, <<ArrV(acc)>>)
    ELSE evalNext(evalComp(st, cs[i], x), cs, i, x, acc)

\* cx(x): the component cx applied to the context x
evalComp(st, cx, x) ==
    CASE cx.op = "text" -> textEval(st, x.s)
      [] cx.op = "li" -> domEval(st, KeyLi, <<x>>)
      [] cx.op = "pullback" -> evalComp(st, cx.cs[1], applyF(cx.f, x))
      [] cx.op = "concat" -> evalAll(st, cx.cs, 1, x, <<>>)

\* the state after cx(x) has returned st
applied(st, cx, x) ==
    /\ Len(st.comps) <= MaxClosures
    /\ tm' = st.tm
    /\ templates' = st.templates
    /\ compiled' = st.compiled
    /\ comps' = st.comps
    /\ last' = [Call("apply", st.ret, 0, Heap, Pre) EXCEPT !.cx = cx, !.x = x]

\* cx(x): a component of a context is applied; the fragment it returns is
\* the last closure built
Apply(cx, x) ==
    /\ applied(evalComp(Closures, cx, x), cx, x)
    /\ UNCHANGED <<node, pt, fr, fragments, renders, rendered>>

\* text(s): the component is returned
TextCall(s) ==
    /\ Len(comps) < MaxCalls
    /\ comps' = Append(comps, [kind |-> "text", tmpl |-> textTemplate, key |-> "",
                               args |-> <<>>, s |-> s])
    /\ last' = Call("text", Len(comps) + 1, 0, Heap, Pre)
    /\ UNCHANGED <<node, pt, fr, tm, templates, fragments, renders, rendered, compiled>>

\* a registry of one fragment for all parents
fragmentsGetShared(parent) == fragments[CHOOSE p \in Parents : \A q \in Parents : p <= q]

\* fragments.get(parent)
fragmentsGet(parent) == fragments[parent]

\* c(parent, fragments.get(parent) || {patches: [], nodes: parent.childNodes}):
\* h.ret is the fragment the component returns
render(h, c, parent) ==
    LET h0 == IF fragmentsGet(parent) # NoFragment
              THEN [h EXCEPT !.ret = fragmentsGet(parent)]
              ELSE NewFragment(h, Fragment(NoTemplateUndefined, <<>>, ChildNodes(parent)))
    IN call(h0, CompV(c), parent, h0.ret)

\* fragments.set(parent, ...) with the fragment in h.ret, when the component
\* has returned; the heaps are as the call left them
fragmentsSet(h, c, parent) ==
    /\ node' = h.node
    /\ pt' = h.pt
    /\ fr' = h.fr
    /\ fragments' = IF Ok(h) THEN [fragments EXCEPT ![parent] = h.ret] ELSE fragments
    /\ rendered' = IF Ok(h) THEN [rendered EXCEPT ![parent] = c] ELSE rendered
    /\ last' = Call("render", c, parent, h, Pre)

\* render(c, parent)
Render(c, parent) ==
    /\ renders < MaxRenders
    /\ fragmentsSet(render(Heap, c, parent), c, parent)
    /\ renders' = renders + 1
    /\ UNCHANGED <<tm, templates, comps, compiled>>

-----------------------------------------------------------------------------
(* Inputs and specifications.  Every specification has the same initial    *)
(* state and the same operations; they differ in the templates, values     *)
(* and parents the caller uses.                                            *)

C == <<"c">>
Created == {CompV(c) : c \in 1..Len(comps)}
CreatedOf(k) == {CompV(c) : c \in {d \in 1..Len(comps) : comps[d].key = k}}
Handler1 == HandlerV(1)
Handler2 == HandlerV(2)

\* a page of one parent: templates with and without top-level sites, nested
\* components, the template without nodes, a text component
Next ==
    \/ \E k \in {KeyP, KeyEmpty} : Dom(k, <<>>)
    \/ \E x \in {StrV(B)} \cup Created : Dom(KeyTop, <<StrV(A), x>>)
    \/ TextCall(A)
    \/ \E c \in 1..Len(comps) : Render(c, 1)

Spec == Init /\ [][Next]_vars

\* text components, and a template without sites, on both parents
NextText ==
    \/ \E s \in {A, B} : TextCall(s)
    \/ Dom(KeyP, <<>>)
    \/ \E c \in 1..Len(comps) : \E p \in Parents : Render(c, p)

SpecText == Init /\ [][NextText]_vars

\* one element with a string attribute of two interpolations, a boolean
\* attribute, a listener and a node site
NextAttr ==
    \/ \E b \in {BoolV(TRUE), BoolV(FALSE)} : \E f \in {Handler1, Handler2} :
          Dom(KeyAttr, <<StrV(A), StrV(B), b, f, StrV(C)>>)
    \/ \E c \in 1..Len(comps) : Render(c, 1)

SpecAttr == Init /\ [][NextAttr]_vars

\* call sites evaluated repeatedly, two of them with equal strings
NextCache ==
    \/ \E k \in {KeyP, KeyP2} : Dom(k, <<>>)
    \/ \E x \in {StrV(A), StrV(B)} : Dom(KeyLi, <<x>>)
    \/ \E c \in 1..Len(comps) : Render(c, 1)

SpecCache == Init /\ [][NextCache]_vars

\* two parents rendered from the same template and the same components
NextTwo ==
    \/ \E x \in {StrV(A), StrV(B)} : Dom(KeyLi, <<x>>)
    \/ Dom(KeyTop, <<StrV(A), StrV(B)>>)
    \/ TextCall(A)
    \/ \E c \in 1..Len(comps) : \E p \in Parents : Render(c, p)

SpecTwo == Init /\ [][NextTwo]_vars

\* a template whose first site is at its top level and whose second is inside
\* an element, fed strings and components of the template without sites
NextMix ==
    \/ Dom(KeyP, <<>>)
    \/ \E x \in {StrV(A)} \cup CreatedOf(KeyP) : \E y \in {StrV(B), StrV(C)} :
          Dom(KeyLead, <<x, y>>)
    \/ \E c \in 1..Len(comps) : Render(c, 1)

SpecMix == Init /\ [][NextMix]_vars

\* a list site between two static siblings, fed sequences of lengths 0 to 3
ListValues ==
    {ArrV(<<>>), ArrV(<<StrV(A)>>), ArrV(<<StrV(A), StrV(B)>>),
     ArrV(<<StrV(A), Null>>), ArrV(<<StrV(A), StrV(B), StrV(C)>>), StrV(B)}

NextList ==
    \/ \E x \in ListValues : Dom(KeyUl, <<x>>)
    \/ \E c \in 1..Len(comps) : Render(c, 1)

SpecList == Init /\ [][NextList]_vars

\* first renders into a parent with children and into one without: a text
\* component, the template without nodes, one with a static first node and
\* one that is a single interpolation
NextFirst ==
    \/ TextCall(A)
    \/ Dom(KeyEmpty, <<>>)
    \/ Dom(KeyTop, <<StrV(A), StrV(B)>>)
    \/ Dom(KeyOnly, <<StrV(A)>>)
    \/ \E c \in 1..Len(comps) : \E p \in Parents : Render(c, p)

SpecFirst == Init /\ [][NextFirst]_vars

\* the sequences given to the list site: the same values in two orders, a
\* shorter one, and ones with a component at either index
PosValues ==
    {ArrV(<<StrV(A), StrV(B)>>), ArrV(<<StrV(B), StrV(A)>>), ArrV(<<StrV(A)>>)}
    \cup {ArrV(<<StrV(A), x>>) : x \in CreatedOf(KeyP)}
    \cup {ArrV(<<x, StrV(A)>>) : x \in CreatedOf(KeyP)}

\* a list site inside an element, fed sequences of strings and components
NextPos ==
    \/ Dom(KeyP, <<>>)
    \/ \E x \in PosValues : Dom(KeyUl, <<x>>)
    \/ \E c \in 1..Len(comps) : Render(c, 1)

SpecPos == Init /\ [][NextPos]_vars

\* a template with a site inside an element, fed a string, a component
\* without sites and a component whose placement raises
NextNest ==
    \/ Dom(KeyP, <<>>)
    \/ Dom(KeyOnly, <<StrV(A)>>)
    \/ \E x \in {StrV(A)} \cup CreatedOf(KeyP) \cup CreatedOf(KeyOnly) : Dom(KeyLi, <<x>>)
    \/ \E c \in 1..Len(comps) : Render(c, 1)

SpecNest == Init /\ [][NextNest]_vars

\* the arguments of a call site of the family: one string per interpolation
ShapeArgs(k) ==
    [i \in 1..(shapeTotal(ShapeOf(k).counts) + IF ShapeOf(k).nested THEN 4 ELSE 0)
        |-> StrV(A)]

\* the call sites of the family are evaluated, which compiles them
NextCompile == \E k \in ShapeKeySet : Dom(k, ShapeArgs(k))

SpecCompile == Init /\ [][NextCompile]_vars

\* the components the page composes: a concatenation of two components, a
\* concatenation that begins with a concatenation, and a pullback
Pair == concat(<<TextOf, ItemOf>>)
Composed == {Pair, concat(<<Pair, TextOf>>), pullback("swap", Pair)}
Contexts == {StrV(A), StrV(B)}

NextConcat ==
    \/ \E cx \in Composed : \E x \in Contexts : Apply(cx, x)
    \/ \E c \in 1..Len(comps) : Render(c, 1)

SpecConcat == Init /\ [][NextConcat]_vars

-----------------------------------------------------------------------------
(* What the last call did *)

Returned == last.exc = "none"
IsRender == last.op = "render"
\* the fragment render passed to the component (NoFragment: the first-use one)
Prev == last.pre.fragments[last.parent]
PrevTemplate ==
    IF Prev = NoFragment THEN NoTemplateUndefined ELSE last.pre.fr[Prev].tmpl
\* the children of the parent before and after the call
KidsBefore == last.pre.node[last.parent].kids
KidsAfter == node[last.parent].kids
InSeq(x, seq) == \E i \in DOMAIN seq : seq[i] = x
\* the nodes the call created
IsNew(n) == n > Len(last.pre.node)

\* a dom component was rendered onto a fragment built from its own template
InPlaceCase ==
    /\ IsRender
    /\ comps[last.c].kind = "dom"
    /\ PrevTemplate = comps[last.c].tmpl

\* a dom component was rendered onto a fragment of another template, a text
\* fragment or the first-use fragment
ReinstantiateCase ==
    /\ IsRender
    /\ comps[last.c].kind = "dom"
    /\ PrevTemplate # comps[last.c].tmpl

-----------------------------------------------------------------------------
(* C1: a component rendered onto the fragment of its own template returns  *)
(* that same fragment, which stays registered, and every element among the *)
(* parent's children (a static top-level node of the fragment) is the same *)
(* node at the same position afterwards.                                   *)
C1_InPlace ==
    InPlaceCase =>
        /\ Returned
        /\ fragments[last.parent] = Prev
        /\ \A i \in DOMAIN KidsBefore :
              last.pre.node[KidsBefore[i]].kind = "element" =>
                  (i \in DOMAIN KidsAfter /\ KidsAfter[i] = KidsBefore[i])

RECURSIVE RootOf(_, _)
\* the node without a parent above n
RootOf(nodes, n) == IF nodes[n].parent = NoNode THEN n ELSE RootOf(nodes, nodes[n].parent)

\* n is in the tree of a parent render was given
InTree(n) == RootOf(node, n) \in Parents

PositionIn(seq, x) == CHOOSE i \in DOMAIN seq : seq[i] = x

-----------------------------------------------------------------------------
(* C2: a dom component rendered onto a fragment that was not built from    *)
(* its template returns; no node the parent held for the previous fragment *)
(* is in the tree afterwards, and the parent's children are then the nodes *)
(* the call created (render hands every child of the parent to the         *)
(* component, so there is no other node under the parent).                 *)
C2_Reinstantiate ==
    ReinstantiateCase =>
        /\ Returned
        /\ \A i \in DOMAIN KidsBefore : ~InTree(KidsBefore[i])
        /\ \A i \in DOMAIN KidsAfter : IsNew(KidsAfter[i])

-----------------------------------------------------------------------------
(* The list site of KeyUl *)

RECURSIVE PartNodes(_, _)
\* the nodes of the parts i.. of a node patch, in part order
PartNodes(parts, i) ==
    IF i > Len(parts) THEN <<>>
    ELSE (IF parts[i].hole THEN <<>> ELSE fr[parts[i].frag].nodes.items)
         \o PartNodes(parts, i + 1)

IsListSite(p) ==
    /\ pt[p].createdBy = "nodePatch"
    /\ node[pt[p].parent].kind = "element"
    /\ InTree(pt[p].parent)

\* the static siblings of the marker of KeyUl: the nodes cloned right before
\* and right after it
SiblingBefore(p) == pt[p].n - 1
SiblingAfter(p) == pt[p].n + 1

(* C3: after a render call that returned, the nodes of the parts of a list *)
(* site are children of the site's parent, in part order, after the static *)
(* sibling that preceded the marker and before the one that followed it.   *)
C3_ListPosition ==
    (IsRender /\ Returned) =>
        \A p \in DOMAIN pt :
            IsListSite(p) =>
                LET kids == node[pt[p].parent].kids
                    ns == PartNodes(pt[p].parts, 1)
                IN /\ \A i \in DOMAIN ns : InSeq(ns[i], kids)
                   /\ \A i, j \in DOMAIN ns :
                         i < j => PositionIn(kids, ns[i]) < PositionIn(kids, ns[j])
                   /\ \A i \in DOMAIN ns :
                         /\ PositionIn(kids, SiblingBefore(p)) < PositionIn(kids, ns[i])
                         /\ PositionIn(kids, ns[i]) < PositionIn(kids, SiblingAfter(p))

\* the number of values a node site renders for the argument a
CountOf(a) == IF a.t = "array" THEN Len(a.a) ELSE 1

(* C4: every application of the list site's patch in a render call ends    *)
(* with as many parts as the applied value has entries, and the nodes of   *)
(* the parts the patch held at indexes beyond that number are detached.    *)
C4_PartCount ==
    (IsRender /\ comps[last.c].kind = "dom") =>
        \A r \in DOMAIN last.reads :
            LET p == last.reads[r].patch
                k == CountOf(ArgAt(comps[last.c].args, last.reads[r].index))
                before == IF p \in DOMAIN last.pre.pt THEN last.pre.pt[p].parts ELSE <<>>
            IN pt[p].createdBy = "nodePatch" =>
                  /\ Returned
                  /\ Len(pt[p].parts) = k
                  /\ \A i \in DOMAIN before :
                        (i > k /\ ~before[i].hole) =>
                            \A j \in DOMAIN last.pre.fr[before[i].frag].nodes.items :
                                ~InTree(last.pre.fr[before[i].frag].nodes.items[j])

-----------------------------------------------------------------------------
(* Text components *)

IsTextRender == IsRender /\ comps[last.c].kind = "text"

\* a text component was rendered onto a text fragment holding another string
TextChanged ==
    /\ IsTextRender
    /\ PrevTemplate = textTemplate
    /\ last.pre.node[KidsBefore[1]].value # comps[last.c].s

(* C5: a text component rendered onto a fragment that is not a text        *)
(* fragment returns after creating exactly one node, a text node of its    *)
(* string, which is then the only child of the parent, the previous nodes  *)
(* being out of the tree.  Rendered onto a text fragment it returns the    *)
(* same fragment, creates and removes no node and keeps the parent's child *)
(* the same node: with an equal string it makes no host call and leaves    *)
(* every node as it was; with a different string its only host call sets   *)
(* the value of that text node.                                            *)
C5_Text ==
    IsTextRender =>
        LET s == comps[last.c].s IN
        /\ Returned
        /\ IF PrevTemplate # textTemplate
           THEN /\ Len(node) = Len(last.pre.node) + 1
                /\ KidsAfter = <<Len(node)>>
                /\ node[Len(node)].kind = "text"
                /\ node[Len(node)].value = s
                /\ \A i \in DOMAIN KidsBefore : ~InTree(KidsBefore[i])
           ELSE /\ fragments[last.parent] = Prev
                /\ Len(node) = Len(last.pre.node)
                /\ KidsAfter = KidsBefore
                /\ Len(KidsAfter) = 1
                /\ node[KidsAfter[1]].value = s
                /\ IF last.pre.node[KidsBefore[1]].value = s
                   THEN last.calls = <<>> /\ node = last.pre.node
                   ELSE /\ last.calls = <<HostCall("nodeValue", KidsBefore[1], 0, 0)>>
                        /\ \A n \in DOMAIN node :
                              n # KidsBefore[1] => node[n] = last.pre.node[n]

C5_Witness == TextChanged /\ Returned /\ KidsAfter = KidsBefore

-----------------------------------------------------------------------------
(* Attribute sites of KeyAttr *)

IsAttributePatch(p) == pt[p].createdBy = "attributePatch"

ClickType == slice(OnclickName, 2)

\* the listeners of node n for the event type typ
ListenersOf(nodes, n, typ) == {l \in nodes[n].lst : l.typ = typ}

\* the host calls of the last call that add or remove a listener of node n
ListenerCalls(n) ==
    SelectSeq(last.calls,
              LAMBDA c : c.n = n /\ c.op \in {"addEventListener", "removeEventListener"})

\* the reads the last call made for the attribute named name
ReadsOf(name) == {r \in DOMAIN last.reads : last.reads[r].site = name}

AppliedArg(r) == ArgAt(comps[last.c].args, last.reads[r].index)

\* the handler the patch held for the click type before the last call
HandlerBefore(p) ==
    IF p \in DOMAIN last.pre.pt THEN HandlerOf(last.pre.pt[p].handlers, ClickType)
    ELSE Undefined

(* C6: at every moment the element of a listener site has at most one      *)
(* click listener, the handler applied last.  An application of the        *)
(* handler the patch already holds makes no addEventListener or            *)
(* removeEventListener call; an application of another handler removes the *)
(* old listener, then adds the new one, which is the only one afterwards.  *)
C6_Listener ==
    /\ \A p \in DOMAIN pt :
          IsAttributePatch(p) =>
              /\ Cardinality(ListenersOf(node, pt[p].n, ClickType)) <= 1
              /\ \A l \in ListenersOf(node, pt[p].n, ClickType) :
                    l.l = HandlerOf(pt[p].handlers, ClickType)
    /\ IsRender =>
          \A r \in ReadsOf(OnclickName) :
              LET p == last.reads[r].patch
                  n == pt[p].n
              IN IF AppliedArg(r) = HandlerBefore(p)
                 THEN /\ ListenerCalls(n) = <<>>
                      /\ node[n].lst = last.pre.node[n].lst
                 ELSE /\ ListenerCalls(n) =
                             <<HostCall("removeEventListener", n, 0, 0),
                               HostCall("addEventListener", n, 0, 0)>>
                      /\ ListenersOf(node, n, ClickType) =
                             {[typ |-> ClickType, l |-> AppliedArg(r)]}

\* a handler was applied to a site that held another handler
C6_Witness ==
    /\ IsRender /\ Returned
    /\ \E r \in ReadsOf(OnclickName) :
          /\ HandlerBefore(last.reads[r].patch) # Undefined
          /\ HandlerBefore(last.reads[r].patch) # AppliedArg(r)
          /\ [typ |-> ClickType, l |-> AppliedArg(r)] \in node[pt[last.reads[r].patch].n].lst

-----------------------------------------------------------------------------
(* The template cache *)

\* the component rendered last into the parent of the last call, before it
RenderedBefore == last.pre.rendered[last.parent]

\* a dom component was rendered onto what a component of the same key left
SameKeyCase ==
    /\ IsRender
    /\ comps[last.c].kind = "dom"
    /\ RenderedBefore # NoComponent
    /\ comps[RenderedBefore].kind = "dom"
    /\ comps[RenderedBefore].key = comps[last.c].key

(* C7: no key is compiled more than once; every dom component is closed    *)
(* over the template the cache holds for its key; two keys never share a   *)
(* template, also when their strings are equal; and a component rendered   *)
(* onto what a component of the same key left returns the fragment that    *)
(* was registered without creating a node, while one of another key        *)
(* returns a new fragment.                                                 *)
C7_Cache ==
    /\ \A k \in Keys : compiled[k] <= 1
    /\ \A c \in DOMAIN comps :
          comps[c].kind = "dom" =>
              /\ templates[comps[c].key] # NoTemplate
              /\ comps[c].tmpl = templates[comps[c].key]
    /\ \A k1, k2 \in Keys :
          (k1 # k2 /\ templates[k1] # NoTemplate) => templates[k1] # templates[k2]
    /\ SameKeyCase =>
          /\ Returned
          /\ fragments[last.parent] = Prev
          /\ Len(node) = Len(last.pre.node)
          /\ Len(fr) = Len(last.pre.fr)
    /\ (IsRender /\ comps[last.c].kind = "dom" /\ ~SameKeyCase) =>
          /\ Returned
          /\ fragments[last.parent] > Len(last.pre.fr)

\* a second component of a key was rendered onto what the first one left
C7_Witness ==
    /\ SameKeyCase /\ Returned
    /\ RenderedBefore # last.c
    /\ compiled[comps[last.c].key] = 1
    /\ fragments[last.parent] = Prev

-----------------------------------------------------------------------------
(* Offsets *)

RECURSIVE Flatten(_)
\* the nodes of a parsed tree, in document order
Flatten(kids) ==
    IF kids = <<>> THEN <<>>
    ELSE <<Head(kids)>> \o Flatten(Head(kids).kids) \o Flatten(Tail(kids))

\* the sequence m occurs in the sequence v
Contains(v, m) ==
    \E i \in 1..(Len(v) - Len(m) + 1) : SubSeq(v, i, i + Len(m) - 1) = m

\* the i-th interpolation (from 0) of the template of key k is in the value
\* of the attribute named name of an element named elem
IsAttributeSite(k, i, elem, name) ==
    LET ns == Flatten(createTemplateElement(k)) IN
    \E j \in DOMAIN ns :
        /\ ns[j].kind = ElementNode
        /\ ns[j].name = elem
        /\ \E a \in DOMAIN ns[j].attrs :
              /\ ns[j].attrs[a].name = name
              /\ Contains(ns[j].attrs[a].value, marker(i))

\* the reads the last call made through the patches of fragment f
ReadsThrough(f) ==
    SelectSeq(last.reads, LAMBDA r : InSeq(r.patch, fr[f].patches))

\* the key of the template tmpl
KeyOf(tmpl) == CHOOSE k \in Keys : templates[k] = tmpl

(* C9: every application of the patches of a fragment instantiated from a  *)
(* template to an array of k arguments returns the offset k, having read   *)
(* the indexes 0, 1, ..., k-1 in that order, patch after patch in the      *)
(* order of the patch list, the read of index i being made for the i-th    *)
(* interpolation of the template: by the patch of the attribute whose      *)
(* value held marker i, or by the patch whose anchor is the comment of     *)
(* marker i.                                                               *)
C9_Offsets ==
    IsRender =>
        \A x \in DOMAIN last.apps :
            LET f == last.apps[x].frag
                k == Len(last.apps[x].args)
                rs == ReadsThrough(f)
            IN Len(fr[f].patches) > 0 =>
                  /\ last.apps[x].off = k
                  /\ Len(rs) = k
                  /\ \A i \in DOMAIN rs :
                        /\ rs[i].index = i - 1
                        /\ IF IsAttributePatch(rs[i].patch)
                           THEN IsAttributeSite(KeyOf(fr[f].tmpl), i - 1,
                                                node[pt[rs[i].patch].n].name, rs[i].site)
                           ELSE node[pt[rs[i].patch].n].value = markerText(i - 1)
                  /\ \A i, j \in DOMAIN rs :
                        i < j => PositionIn(fr[f].patches, rs[i].patch)
                                    <= PositionIn(fr[f].patches, rs[j].patch)

-----------------------------------------------------------------------------
(* The registry *)

\* the nodes of the tree of parent q
Under(nodes, q) == {n \in DOMAIN nodes : RootOf(nodes, n) = q}

(* C10: the fragment registered for a parent is the one the last render    *)
(* into it that returned has returned, and no fragment is registered for   *)
(* two parents.  A render into a parent registers what it returns (and     *)
(* nothing when it does not return), and leaves the fragment registered    *)
(* for every other parent, the set of nodes under that parent and each of  *)
(* these nodes as they were.                                               *)
C10_Registry ==
    /\ \A p \in Parents : (fragments[p] = NoFragment) <=> (rendered[p] = NoComponent)
    /\ \A p, q \in Parents :
          (p # q /\ fragments[p] # NoFragment) => fragments[p] # fragments[q]
    /\ IsRender =>
          /\ IF Returned
             THEN fragments[last.parent] = last.ret /\ rendered[last.parent] = last.c
             ELSE fragments = last.pre.fragments
          /\ \A q \in Parents \ {last.parent} :
                /\ fragments[q] = last.pre.fragments[q]
                /\ Under(node, q) = Under(last.pre.node, q)
                /\ \A n \in Under(node, q) : node[n] = last.pre.node[n]

\* a component was rendered into the second parent after it had been
\* rendered into the first one, which still holds its fragment
C10_Witness ==
    /\ IsRender /\ Returned
    /\ \E p \in Parents \ {last.parent} :
          /\ last.pre.rendered[p] = last.c
          /\ fragments[p] # NoFragment
          /\ Len(node[p].kids) > 0
    /\ Len(KidsAfter) > 0

-----------------------------------------------------------------------------
(* First use of a parent *)

\* render was called for a parent without a registered fragment
FirstRenderCase == IsRender /\ Prev = NoFragment

\* the fragment render built for the component of the last call
FirstUseFragment == fr[Len(last.pre.fr) + 1]

(* C11: on a render into a parent without a registered fragment the        *)
(* component is handed a fragment without a template, with no patches and  *)
(* with the parent's live child list as its nodes; the call returns, none  *)
(* of the children the parent had is in the tree afterwards, and every     *)
(* child the parent has then is a node the call created.                   *)
C11_FirstRender ==
    FirstRenderCase =>
        /\ FirstUseFragment = Fragment(NoTemplateUndefined, <<>>, ChildNodes(last.parent))
        /\ Returned
        /\ \A i \in DOMAIN KidsBefore : ~InTree(KidsBefore[i])
        /\ \A i \in DOMAIN KidsAfter : IsNew(KidsAfter[i])

-----------------------------------------------------------------------------
(* Live fragments *)

RECURSIVE placeholderCount(_)
\* the number of placeholders in the trees phs: one createPatch call each
placeholderCount(phs) ==
    IF phs = <<>> THEN 0
    ELSE 1 + placeholderCount(Head(phs).children) + placeholderCount(Tail(phs))

\* the fragments the parts of the patches of fragment f remember
PartFragments(f) ==
    UNION {{pt[fr[f].patches[i]].parts[j].frag :
               j \in {k \in DOMAIN pt[fr[f].patches[i]].parts :
                         ~pt[fr[f].patches[i]].parts[k].hole}} :
           i \in DOMAIN fr[f].patches}

RECURSIVE LiveFrom(_)
\* the fragment f and the fragments reachable from it through parts
LiveFrom(f) == {f} \cup UNION {LiveFrom(g) : g \in PartFragments(f)}

\* the fragments registered for a parent and those their parts remember
LiveFragments ==
    UNION {LiveFrom(fragments[p]) : p \in {q \in Parents : fragments[q] # NoFragment}}

\* the fragment carries a template that createTemplate built
IsStructural(f) == fr[f].tmpl \in DOMAIN tm

(* C13: every live fragment that carries a structural template, the ones   *)
(* remembered by parts included, has as many patches as the template has   *)
(* placeholders; and every application of patches by a dom component in a  *)
(* render call, on the in-place path too, is made on a fragment that has   *)
(* as many patches as its template has placeholders.                       *)
C13_PatchCount ==
    /\ \A f \in LiveFragments :
          IsStructural(f) =>
              Len(fr[f].patches) = placeholderCount(tm[fr[f].tmpl].ph.children)
    /\ IsRender =>
          \A x \in DOMAIN last.apps :
              LET f == last.apps[x].frag IN
              /\ IsStructural(f)
              /\ Len(fr[f].patches) = placeholderCount(tm[fr[f].tmpl].ph.children)

\* the node list of fragment f as it is now
NodesOf(f) == Items([node |-> node], fr[f].nodes)

\* the nodes of ns are children of one node of the tree, in the order of ns
AttachedInOrder(ns) ==
    /\ \A i \in DOMAIN ns : node[ns[i]].parent # NoNode /\ InTree(ns[i])
    /\ \A i, j \in DOMAIN ns :
          i < j => /\ node[ns[i]].parent = node[ns[j]].parent
                   /\ PositionIn(node[node[ns[i]].parent].kids, ns[i])
                         < PositionIn(node[node[ns[j]].parent].kids, ns[j])

(* C14: after a render call that returned, the node list of the fragment   *)
(* registered for the parent is the list of the parent's children (render  *)
(* hands the component every child, so all of them are the fragment's),    *)
(* and the node list of every fragment a part remembers below it consists  *)
(* of attached nodes, children of one node of the tree, in list order.     *)
C14_NodeList ==
    (IsRender /\ Returned) =>
        /\ NodesOf(fragments[last.parent]) = KidsAfter
        /\ \A f \in LiveFrom(fragments[last.parent]) : AttachedInOrder(NodesOf(f))

-----------------------------------------------------------------------------
(* The parent a node patch captured *)

\* the nodes of the parts of patch p before the last call, in part order
PartNodesBefore(p) ==
    UNION {{last.pre.fr[last.pre.pt[p].parts[j].frag].nodes.items[k] :
               k \in DOMAIN last.pre.fr[last.pre.pt[p].parts[j].frag].nodes.items} :
           j \in {i \in DOMAIN last.pre.pt[p].parts : ~last.pre.pt[p].parts[i].hole}}

(* C18: when a render call applies the patches of the registered fragment  *)
(* in place, every node patch of the fragment has captured as its parent   *)
(* the node that is, when the application starts, the parent of every node *)
(* of its parts; and no host call of the application is refused because    *)
(* the node acted on is not the parent (NotFoundError).                    *)
C18_CapturedParent ==
    InPlaceCase =>
        /\ \A i \in DOMAIN last.pre.fr[Prev].patches :
              LET p == last.pre.fr[Prev].patches[i] IN
              last.pre.pt[p].createdBy = "nodePatch" =>
                  \A n \in PartNodesBefore(p) :
                      last.pre.node[n].parent = last.pre.pt[p].parent
        /\ last.exc # "NotFoundError"

-----------------------------------------------------------------------------
(* The parts of a node patch *)

\* the node patches applied by the last call
AppliedNodePatches ==
    {last.reads[r].patch : r \in {x \in DOMAIN last.reads : last.reads[x].site = EmptyStr}}

(* C19: after a render call, every node patch the call applied holds a     *)
(* defined part (a remembered value and a fragment) at each index below    *)
(* its part count, whatever sequence was applied; and no node patch of any *)
(* fragment holds a missing part that a later application would read.      *)
C19_DefinedParts ==
    /\ IsRender =>
          \A p \in AppliedNodePatches :
              \A i \in DOMAIN pt[p].parts : ~pt[p].parts[i].hole
    /\ \A p \in DOMAIN pt :
          \A i \in DOMAIN pt[p].parts : ~pt[p].parts[i].hole

-----------------------------------------------------------------------------
(* One application of a node patch to the fragment registered before *)

\* the node patches of the fragment the last call was handed
NodePatchesBefore ==
    {p \in DOMAIN last.pre.pt :
        /\ InSeq(p, last.pre.fr[Prev].patches)
        /\ last.pre.pt[p].createdBy = "nodePatch"}

\* the sequence the last call applied to node patch p
NewArgsOf(p) ==
    LET r == CHOOSE x \in DOMAIN last.reads : last.reads[x].patch = p
        a == AppliedArg(r)
    IN IF a.t = "array" THEN a.a ELSE <<a>>

\* patch p held a part at index i before the last call
HadPart(p, i) ==
    i \in DOMAIN last.pre.pt[p].parts /\ ~last.pre.pt[p].parts[i].hole

\* the value the part at index i of patch p remembered before the last call
OldArg(p, i) == IF HadPart(p, i) THEN last.pre.pt[p].parts[i].arg ELSE Null

RECURSIVE changedFrom(_, _, _)
\* the indexes from i on at which the new value differs from the remembered
changedFrom(p, newArgs, i) ==
    IF i > Len(newArgs) THEN <<>>
    ELSE (IF newArgs[i] # OldArg(p, i) THEN <<i>> ELSE <<>>)
         \o changedFrom(p, newArgs, i + 1)

\* the invocations the last call made with the parent patch p captured
InvocationsOf(p) == SelectSeq(last.invs, LAMBDA e : e.parent = last.pre.pt[p].parent)

\* node n is named by a host call of the last call
Touched(n) ==
    \E k \in DOMAIN last.calls :
        n \in {last.calls[k].n, last.calls[k].x, last.calls[k].y}

(* C16: in an application of a node patch to a sequence, the invocations   *)
(* are exactly one per index whose value differs from the one the part at  *)
(* that index remembers, in index order: of the value itself when it is a  *)
(* function, of text("" + value) otherwise, each with the fragment of the  *)
(* part at that index (a fragment without template and nodes when there is *)
(* no part).  At an index with an identical value the part, its nodes and  *)
(* their records are as before and no host call names them.  At an index   *)
(* where one string replaces another, the part keeps its fragment and its  *)
(* node, which takes the new string: values given in another order change  *)
(* the nodes where they are and move none.                                 *)
C16_Positional ==
    (InPlaceCase /\ Returned) =>
        \A p \in NodePatchesBefore :
            LET newArgs == NewArgsOf(p)
                changed == changedFrom(p, newArgs, 1)
                invs == InvocationsOf(p)
            IN /\ Len(invs) = Len(changed)
               /\ \A k \in DOMAIN changed :
                     LET i == changed[k]
                         arg == newArgs[i]
                     IN /\ k \in DOMAIN invs
                        /\ invs[k].c = (IF arg.t = "function" THEN arg.n ELSE NoComponent)
                        /\ arg.t # "function" => invs[k].s = ToStr(arg)
                        /\ IF HadPart(p, i)
                           THEN invs[k].frag = last.pre.pt[p].parts[i].frag
                           ELSE /\ invs[k].frag > Len(last.pre.fr)
                                /\ fr[invs[k].frag] =
                                       Fragment(NoTemplateNull, <<>>, ArrayOf(<<>>))
                        /\ pt[p].parts[i].arg = arg
                        /\ fr[pt[p].parts[i].frag].tmpl =
                              (IF arg.t = "function" THEN comps[arg.n].tmpl
                               ELSE textTemplate)
                        /\ (/\ arg.t # "function"
                            /\ HadPart(p, i)
                            /\ last.pre.fr[last.pre.pt[p].parts[i].frag].tmpl = textTemplate) =>
                              /\ pt[p].parts[i].frag = last.pre.pt[p].parts[i].frag
                              /\ NodesOf(pt[p].parts[i].frag)
                                    = last.pre.fr[pt[p].parts[i].frag].nodes.items
                              /\ node[NodesOf(pt[p].parts[i].frag)[1]].value = ToStr(arg)
               /\ \A i \in DOMAIN newArgs :
                     (newArgs[i] = OldArg(p, i) /\ HadPart(p, i)) =>
                         /\ pt[p].parts[i] = last.pre.pt[p].parts[i]
                         /\ fr[pt[p].parts[i].frag] = last.pre.fr[pt[p].parts[i].frag]
                         /\ \A n \in {NodesOf(pt[p].parts[i].frag)[j] :
                                          j \in DOMAIN NodesOf(pt[p].parts[i].frag)} :
                               node[n] = last.pre.node[n] /\ ~Touched(n)
               /\ (\A i \in DOMAIN newArgs : HadPart(p, i) /\ newArgs[i].t # "function"
                       /\ last.pre.fr[last.pre.pt[p].parts[i].frag].tmpl = textTemplate)
                   /\ Len(newArgs) = Len(last.pre.pt[p].parts)
                     => node[pt[p].parent].kids = last.pre.node[pt[p].parent].kids

\* an applied sequence kept the value at one index and put a component
\* where a string was at another
C16_Witness ==
    /\ InPlaceCase /\ Returned
    /\ \E p \in NodePatchesBefore :
          \E i, j \in DOMAIN NewArgsOf(p) :
              /\ HadPart(p, i) /\ NewArgsOf(p)[i] = OldArg(p, i)
              /\ HadPart(p, j) /\ OldArg(p, j).t = "string"
              /\ NewArgsOf(p)[j].t = "function"
              /\ Len(InvocationsOf(p)) = 1

-----------------------------------------------------------------------------
(* The reinstantiate path *)

\* the nodes that were in the tree of the parent before the last call
LiveBefore == Under(last.pre.node, last.parent)

\* the k-th host call of the last call names a node of the parent's tree
IsLiveCall(k) ==
    {last.calls[k].n, last.calls[k].x, last.calls[k].y} \cap LiveBefore # {}

\* an application of patches of the last call did not return
PatchRaised == \E x \in DOMAIN last.apps : last.apps[x].off = NoOffset

(* C17: when a dom component is rendered on the reinstantiate path, no     *)
(* host call made before an application of patches (of the new fragment or *)
(* of a nested component's fragment) has ended names the parent or a node  *)
(* of its tree; when all applications have returned, every later host call *)
(* is made on the parent; and when an application raised, the parent's     *)
(* tree, node by node, and the registered fragments are as they were       *)
(* before the call.                                                        *)
C17_Detached ==
    ReinstantiateCase =>
        /\ Len(last.apps) > 0
        /\ \A x \in DOMAIN last.apps :
              \A k \in 1..last.apps[x].at : ~IsLiveCall(k)
        /\ ~PatchRaised =>
              \A k \in DOMAIN last.calls :
                  k > last.apps[Len(last.apps)].at => last.calls[k].n = last.parent
        /\ PatchRaised =>
              /\ ~Returned
              /\ KidsAfter = KidsBefore
              /\ fragments = last.pre.fragments
              /\ Under(node, last.parent) = LiveBefore
              /\ \A n \in LiveBefore : node[n] = last.pre.node[n]

\* a render onto the fragment of another template raised while the new
\* fragment was being patched, after host calls on the new nodes
C17_Witness ==
    /\ ReinstantiateCase
    /\ Prev # NoFragment
    /\ PatchRaised
    /\ Len(last.calls) > 0
    /\ Len(KidsAfter) > 0

-----------------------------------------------------------------------------
(* What createTemplate registered *)

RECURSIVE toNumber(_)
\* the number a string of digits denotes
toNumber(ds) ==
    IF ds = <<>> THEN 0
    ELSE 10 * toNumber(SubSeq(ds, 1, Len(ds) - 1))
         + (CHOOSE d \in DOMAIN DigitChars : DigitChars[d] = ds[Len(ds)]) - 1

RECURSIVE indexesFrom(_, _)
\* the interpolation indexes of the markers in the string v from position i
indexesFrom(v, i) ==
    IF i > Len(v) THEN <<>>
    ELSE IF matchAt(v, i) > 0
         THEN <<toNumber(SubSeq(v, i + Len(MarkerOpen),
                                i + Len(MarkerOpen) + digitsFrom(v, i + Len(MarkerOpen)) - 1))>>
              \o indexesFrom(v, i + matchAt(v, i))
         ELSE indexesFrom(v, i + 1)

RECURSIVE nodeAt(_, _)
\* the parsed node at the path (child indexes from 0) below the nodes kids
nodeAt(kids, path) ==
    IF Len(path) = 1 THEN kids[path[1] + 1]
    ELSE nodeAt(kids[path[1] + 1].kids, Tail(path))

RECURSIVE registered(_, _)
\* the placeholders of the trees phs in the order instantiate visits them,
\* each with its path from the template's content (base: the path of the
\* node the paths of phs start from)
registered(phs, base) ==
    IF phs = <<>> THEN <<>>
    ELSE <<[path |-> base \o Head(phs).path, ph |-> Head(phs)]>>
         \o registered(Head(phs).children, base \o Head(phs).path)
         \o registered(Tail(phs), base)

\* the value of the attribute named name of the parsed element n
valueOfAttr(n, name) ==
    n.attrs[CHOOSE a \in DOMAIN n.attrs : n.attrs[a].name = name].value

RECURSIVE descriptorIndexes(_, _, _)
\* the interpolation indexes of the descriptors attrs[i..] of element n
descriptorIndexes(n, attrs, i) ==
    IF i > Len(attrs) THEN <<>>
    ELSE indexesFrom(valueOfAttr(n, attrs[i].name), 1)
         \o descriptorIndexes(n, attrs, i + 1)

\* the interpolation indexes of a registered placeholder of the parsed tree
entryIndexes(parsed, e) ==
    LET n == nodeAt(parsed, e.path) IN
    IF e.ph.createPatch = "attributePatch"
    THEN descriptorIndexes(n, e.ph.attrs, 1)
    ELSE <<toNumber(SubSeq(n.value, 4, Len(n.value)))>>

RECURSIVE allIndexes(_, _, _)
allIndexes(parsed, es, i) ==
    IF i > Len(es) THEN <<>>
    ELSE entryIndexes(parsed, es[i]) \o allIndexes(parsed, es, i + 1)

\* the key the last call of dom was made with, which is compiled then
\* (templates are never changed once they are built)
CompiledKeys == IF last.op = "dom" THEN {comps[last.c].key} ELSE {}

\* the element at path of the parsed tree has a marker-bearing attribute
HasSites(n) ==
    n.kind = ElementNode
    /\ \E a \in DOMAIN n.attrs : Len(split(n.attrs[a].value)) > 1

(* C15: in the template of every call of dom the placeholders, in the order they are *)
(* registered (a placeholder before its children, those before its later   *)
(* siblings), carry the interpolation indexes 0, 1, 2, ... in ascending    *)
(* order without gap, the descriptors of an attribute placeholder in       *)
(* ascending order of their indexes and each with one piece more than it   *)
(* has interpolations; an attribute placeholder stands for an element with *)
(* marker-bearing attributes and describes every such attribute of it, and *)
(* no two placeholders stand for the same element.                         *)
C15_Compile ==
    \A k \in CompiledKeys :
        LET parsed == createTemplateElement(k)
            es == registered(tm[templates[k]].ph.children, <<>>)
            idx == allIndexes(parsed, es, 1)
        IN /\ \A i \in DOMAIN idx : idx[i] = i - 1
           /\ \A i \in DOMAIN es :
                 es[i].ph.createPatch = "attributePatch" =>
                     LET n == nodeAt(parsed, es[i].path) IN
                     /\ HasSites(n)
                     /\ {es[i].ph.attrs[d].name : d \in DOMAIN es[i].ph.attrs}
                           = {n.attrs[a].name :
                                 a \in {b \in DOMAIN n.attrs :
                                           Len(split(n.attrs[b].value)) > 1}}
                     /\ \A d \in DOMAIN es[i].ph.attrs :
                           Len(es[i].ph.attrs[d].pieces)
                             = Len(indexesFrom(valueOfAttr(n, es[i].ph.attrs[d].name), 1)) + 1
           /\ \A i, j \in DOMAIN es : i # j => es[i].path # es[j].path

\* a template was compiled whose host enumerates x, y, z in another order
\* than the source and whose attributes hold 2, 8 and 1 interpolations
C15_Witness ==
    \E k \in CompiledKeys \cap ShapeKeySet :
        /\ ShapeOf(k).counts = <<2, 8, 1>>
        /\ ShapeOf(k).order = <<3, 2, 1>>
        /\ Len(tm[templates[k]].ph.children) = 1
        /\ [d \in 1..3 |-> tm[templates[k]].ph.children[1].attrs[d].name] = AttrNames

-----------------------------------------------------------------------------
(* Composition *)

\* what a node shows: its kind, name, text and the same of its children
TextView(s) == [kind |-> "text", name |-> EmptyStr, value |-> s, kids |-> <<>>]
ElemView(name, kids) == [kind |-> "element", name |-> name, value |-> EmptyStr, kids |-> kids]

RECURSIVE ViewOf(_)
ViewOf(n) ==
    [kind |-> node[n].kind, name |-> node[n].name, value |-> node[n].value,
     kids |-> [i \in DOMAIN node[n].kids |-> ViewOf(node[n].kids[i])]]

\* the children of the parent that show something: the blank texts of the
\* template of concat and comments are left out
Shown(kids) ==
    SelectSeq([i \in DOMAIN kids |-> ViewOf(kids[i])],
              LAMBDA v : v.kind # "comment" /\ ~(v.kind = "text" /\ v.value = <<" ">>))

RECURSIVE Ref(_, _)
RECURSIVE RefAll(_, _, _)
\* what cx(x) is to show: text(x) a text, the item template an <li> around
\* the text, pullback(f, c)(w) what c(f(w)) shows, concat(...)(x) what its
\* components show for x, in argument order
Ref(cx, x) ==
    CASE cx.op = "text" -> <<TextView(x.s)>>
      [] cx.op = "li" -> <<ElemView(<<"l", "i">>, <<TextView(x.s)>>)>>
      [] cx.op = "pullback" -> Ref(cx.cs[1], applyF(cx.f, x))
      [] cx.op = "concat" -> RefAll(cx.cs, 1, x)
RefAll(cs, i, x) ==
    IF i > Len(cs) THEN <<>> ELSE Ref(cs[i], x) \o RefAll(cs, i + 1, x)

RECURSIVE Out(_)
RECURSIVE OutAll(_, _)
\* what the fragment c is to show, by the closures it was built from
Out(c) ==
    CASE comps[c].kind = "text" -> <<TextView(comps[c].s)>>
      [] comps[c].key = KeyLi -> <<ElemView(<<"l", "i">>, <<TextView(comps[c].args[1].s)>>)>>
      [] comps[c].key = KeyConcat -> OutAll(comps[c].args[1].a, 1)
OutAll(fs, i) ==
    IF i > Len(fs) THEN <<>> ELSE Out(fs[i].n) \o OutAll(fs, i + 1)

RECURSIVE Skeleton(_)
\* the templates the fragment c and its components were built from
Skeleton(c) ==
    IF comps[c].key = KeyConcat
    THEN <<KeyConcat, [i \in DOMAIN comps[c].args[1].a |-> Skeleton(comps[c].args[1].a[i].n)]>>
    ELSE <<comps[c].key, <<>>>>

\* the fragment of a concatenation was rendered
ConcatRender == IsRender /\ comps[last.c].key = KeyConcat

\* ... onto what a fragment of the same components has left
ConcatAgain ==
    /\ ConcatRender
    /\ RenderedBefore # NoComponent
    /\ Skeleton(RenderedBefore) = Skeleton(last.c)

(* C12: an applied component returns a fragment built to show what its     *)
(* term says: concat(c1, ..., cn)(x) what every ci shows for the same x,   *)
(* in argument order, and pullback(f, c)(w) what c(f(w)) shows.  A render  *)
(* of the fragment of a concatenation returns and the parent then shows    *)
(* exactly that, in that order; rendered onto what a fragment of the same  *)
(* components left, it creates no node and keeps the parent's children.    *)
C12_Compose ==
    /\ last.op = "apply" => Out(last.c) = Ref(last.cx, last.x)
    /\ ConcatRender =>
          /\ Returned
          /\ Shown(KidsAfter) = Out(last.c)
    /\ ConcatAgain =>
          /\ Len(node) = Len(last.pre.node)
          /\ KidsAfter = KidsBefore

====
